---- MODULE Spec2Model ----
(***************************************************************************)
(* Model of the scrape-history store of webscraper-multi-agent             *)
(* (src/storage.py) and of the callers that reach it (src/main.py,         *)
(* src/run_batch.py, src/service.py, src/tools/).                          *)
(*                                                                         *)
(* Every store function opens its own SQLite connection.  Python's sqlite3 *)
(* module opens a transaction only in front of INSERT/UPDATE/DELETE, so a  *)
(* SELECT followed by an UPDATE on the same connection is two separate     *)
(* database steps: the read lock is gone when fetchone() has returned the  *)
(* only row, and another connection (another thread or process using the   *)
(* same database file) may write between them.  The model therefore makes  *)
(* one step of every SQL statement.  Callers that live on the same thread  *)
(* (coroutines of one event loop) cannot interleave inside a store         *)
(* function, because the store functions are synchronous; they interleave  *)
(* only between calls.                                                     *)
(*                                                                         *)
(* Text is a sequence of one-character strings.  An optional value is a    *)
(* sequence of length 0 (None) or 1 (the value).                           *)
(***************************************************************************)
EXTENDS Integers, Sequences, FiniteSets, TLC

VARIABLES
    rows,        \* table scrape_requests: rows[id] is the row with primary key id
    tl,          \* _thread_local.request_id of every thread (0 is None)
    threadOf,    \* the thread every caller runs on (fixed by the deployment)
    ctx,         \* ScraperContext.request_id held by every caller (0 is None)
    pc,          \* position of every caller inside the store function it runs
    loc,         \* local variables of the store function a caller runs
    ret,         \* how the store call that finished last ended
    now,         \* the time the system clock showed when it was read last
    calls,       \* number of store calls started so far
    log_done,    \* history: per request id, number of log_tool_call calls completed
    arg,         \* input text of the normalisation runs
    hist,        \* results of the normalisation runs, oldest first
    url_domain,  \* result of _domain_from_url on the input text
    sresult,     \* result text of the summary runs
    sstep,       \* step built from sresult
    advice_rows, \* table scraping_advice: advice_rows[id] is the row with primary key id
    query,       \* arguments of the query (search_history, get_advice, ...) run last
    found,       \* list that query returned
    summary,     \* text that get_advice_for_domain returned
    tool         \* the call of a fetch adapter (src/tools) that caller s1 is in

vars == <<rows, tl, threadOf, ctx, pc, loc, ret, now, calls, log_done,
          arg, hist, url_domain, sresult, sstep,
          advice_rows, query, found, summary, tool>>

storeVars == <<rows, tl, threadOf, ctx, pc, loc, ret, now, calls, log_done>>
normVars == <<arg, hist, url_domain>>
summaryVars == <<sresult, sstep>>
queryVars == <<advice_rows, query, found, summary>>
toolVars == <<tool>>

----------------------------------------------------------------------------
(* Bounds *)

MaxRequests == 2
MaxCalls == 3
MaxNow == 1
MaxStrLen == 5
MaxExtra == 3
MaxAdvice == 2

----------------------------------------------------------------------------
(* Values *)

None == <<>>
Some(v) == <<v>>

Callers == {"s1", "s2"}
Threads == {"t1", "t2"}

\* the callers run on two threads (or in two processes)
TwoThreads == [c \in Callers |-> IF c = "s1" THEN "t1" ELSE "t2"]

\* the callers are coroutines of one event loop
OneLoop == [c \in Callers |-> "t1"]

_RESULT_SUMMARY_MAX == 500

\* the largest limit of search_history and get_advice
LimitMax == 500

\* the limit get_advice_for_domain passes to get_advice
AdviceSummaryLimit == 10

PlaceholderPrompt == "(auto-created from tool call)"
Prompts == {"scrape foo"}

NoDomain == <<"(no domain)">>

Urls == { [netloc |-> <<"a", ".", "i", "o">>, path |-> "/a"],
          [netloc |-> <<"W", "w", "w", ".", "b">>, path |-> "/b"] }

Results == { <<"o", "k">> }
ArgumentsSet == { "{url}" }
ToolNames == { "http_request" }
FinalResults == { "done" }
Notes == { "worked" }

----------------------------------------------------------------------------
(* Text operations of the Python runtime that the store uses *)

Lower(ch) ==
    IF ch = "W" THEN "w" ELSE IF ch = "A" THEN "a" ELSE ch

Upper(ch) ==
    IF ch = "w" THEN "W" ELSE IF ch = "a" THEN "A" ELSE ch

\* str.upper()
UpperStr(s) == [i \in 1..Len(s) |-> Upper(s[i])]

\* str.lower()
LowerStr(s) == [i \in 1..Len(s) |-> Lower(s[i])]

\* s[n:] (n is a 0-based start index)
DropFirst(s, n) == IF n >= Len(s) THEN <<>> ELSE SubSeq(s, n + 1, Len(s))

\* s[:n]
TakeFirst(s, n) == IF n >= Len(s) THEN s ELSE SubSeq(s, 1, n)

\* number of leading characters of s that belong to chars
RECURSIVE LeadingIn(_, _)
LeadingIn(s, chars) ==
    IF s = <<>> \/ Head(s) \notin chars THEN 0
    ELSE 1 + LeadingIn(Tail(s), chars)

\* number of trailing characters of s that belong to chars
RECURSIVE TrailingIn(_, _)
TrailingIn(s, chars) ==
    IF s = <<>> \/ s[Len(s)] \notin chars THEN 0
    ELSE 1 + TrailingIn(SubSeq(s, 1, Len(s) - 1), chars)

\* str.lstrip(chars): drops every leading character that is in the set chars
LStrip(s, chars) == DropFirst(s, LeadingIn(s, chars))

\* str.strip(): drops leading and trailing whitespace
Strip(s) ==
    LET t == DropFirst(s, LeadingIn(s, {" "}))
    IN  TakeFirst(t, Len(t) - TrailingIn(t, {" "}))

\* the characters of the argument "www." of lstrip
WwwChars == {"w", "."}

\* part in text
Contains(text, part) ==
    \E i \in 0..(Len(text) - Len(part)) : SubSeq(text, i + 1, i + Len(part)) = part

\* text LIKE pattern in SQLite: % stands for any text, _ for any one
\* character, and every other character for itself in either letter case
RECURSIVE Like(_, _)
Like(text, pattern) ==
    IF pattern = <<>> THEN text = <<>>
    ELSE IF Head(pattern) = "%"
      THEN Like(text, Tail(pattern)) \/ (text # <<>> /\ Like(Tail(text), pattern))
    ELSE /\ text # <<>>
         /\ Head(pattern) = "_" \/ Lower(Head(pattern)) = Lower(Head(text))
         /\ Like(Tail(text), Tail(pattern))

Min(a, b) == IF a <= b THEN a ELSE b
Max(a, b) == IF a >= b THEN a ELSE b

\* x or y, for a text x and a default y
OrText(x, y) == IF x = <<>> THEN y ELSE x

\* x or y, for an optional x and an optional y
OrElse(x, y) == IF x = None \/ x = Some(<<>>) THEN y ELSE x

----------------------------------------------------------------------------
(* Pure functions of src/storage.py *)

\* urlparse(url).netloc.lower().lstrip("www.") or "(no domain)"
_domain_from_url(url) == OrText(LStrip(LowerStr(url.netloc), WwwChars), NoDomain)

\* domain.strip().lower().lstrip("www.") of add_advice and get_advice_for_domain
NormalizeAdviceDomain(domain) == LStrip(LowerStr(Strip(domain)), WwwChars)

\* the summary with the ellipsis test off by one (>= for >)
SummaryEllipsisAtMax(result) ==
    TakeFirst(result, _RESULT_SUMMARY_MAX)
        \o (IF Len(result) >= _RESULT_SUMMARY_MAX THEN <<".", ".", ".">> ELSE <<>>)

\* result[:_RESULT_SUMMARY_MAX] + ("..." if len(result) > _RESULT_SUMMARY_MAX else "")
Summary(result) ==
    TakeFirst(result, _RESULT_SUMMARY_MAX)
        \o (IF Len(result) > _RESULT_SUMMARY_MAX THEN <<".", ".", ".">> ELSE <<>>)

\* json.dumps(arguments, default=str): the text of the arguments
ArgsJson(arguments) == <<"json", arguments>>

\* the step dict that log_tool_call builds before it reads the row
MakeStep(url, tool_name, arguments, result, t) ==
    [ step_id |-> None,
      url |-> url,
      domain |-> _domain_from_url(url),
      tool_name |-> tool_name,
      arguments |-> arguments,
      arguments_json |-> ArgsJson(arguments),
      result |-> result,
      result_summary |-> Summary(result),
      timestamp |-> t,
      led_to_data |-> None,
      evaluator_notes |-> None ]

\* the append with a 1-based step id (len(steps) taken after the append)
AppendStepOneBased(steps, step) == Append(steps, [step EXCEPT !.step_id = Some(Len(steps) + 1)])

\* the append without the assignment of step_id
AppendStepUnnumbered(steps, step) == Append(steps, step)

\* steps.append(step) after step["step_id"] = len(steps)
AppendStep(steps, step) == Append(steps, [step EXCEPT !.step_id = Some(Len(steps))])

\* new_domain = current_domain or domain
NewDomain(current_domain, domain) == OrElse(current_domain, Some(domain))

\* the edit that assigns both fields, given or not
MarkStepBothFields(steps, step_id, led_to_data, evaluator_notes) ==
    [steps EXCEPT ![step_id + 1] =
        [@ EXCEPT !.led_to_data = led_to_data,
                  !.evaluator_notes = evaluator_notes]]

\* steps[step_id][...] = ... for the fields that were given (step_id is 0-based)
MarkStep(steps, step_id, led_to_data, evaluator_notes) ==
    [steps EXCEPT ![step_id + 1] =
        [@ EXCEPT !.led_to_data = IF led_to_data # None THEN led_to_data ELSE @,
                  !.evaluator_notes = IF evaluator_notes # None THEN evaluator_notes ELSE @]]

\* the early return taken on led_to_data alone
NothingGivenLedOnly(led_to_data, evaluator_notes) == led_to_data = None

\* led_to_data is None and evaluator_notes is None
NothingGiven(led_to_data, evaluator_notes) == led_to_data = None /\ evaluator_notes = None

\* the range test off by one (> for >=)
StepOutOfRangePastEnd(step_id, steps) == step_id < 0 \/ step_id > Len(steps)

\* step_id < 0 or step_id >= len(steps)
StepOutOfRange(step_id, steps) == step_id < 0 \/ step_id >= Len(steps)

\* the row that INSERT INTO scrape_requests (prompt, steps_json) creates
NewRow(prompt, t) ==
    [ prompt |-> prompt, domain |-> None, steps |-> <<>>,
      final_result |-> None, success |-> None,
      created_at |-> t, updated_at |-> t ]

\* the success column with NULL stored for False
SuccessColumnNullForFalse(success) == IF success = Some(TRUE) THEN Some(1) ELSE None

\* 1 if success else 0
SuccessColumn(success) == IF success = Some(TRUE) THEN Some(1) ELSE Some(0)

\* the text of a URL
UrlText(url) == <<"h", "t", "t", "p", "s", ":", "/", "/">> \o url.netloc \o <<url.path>>

\* (domain or "").strip().lower() if domain else None
SearchDomain(domain) ==
    IF domain = None \/ domain = Some(<<>>) THEN None
    ELSE Some(LowerStr(Strip(domain[1])))

\* (url_contains or "").strip() or None
SearchUrl(url_contains) ==
    IF url_contains = None \/ Strip(url_contains[1]) = <<>> THEN None
    ELSE Some(Strip(url_contains[1]))

\* the limit without the lower end of the clamp
ClampLimitNoFloor(limit) == Min(limit, LimitMax)

\* max(1, min(limit, 500))
ClampLimit(limit) == Max(1, Min(limit, LimitMax))

\* the WHERE clause with = in the place of LIKE
DomainEquals(row_domain, domain) ==
    \/ domain = None
    \/ domain = Some(<<>>)
    \/ row_domain = domain

\* the WHERE clause: no test when the filter is None or empty, else
\* domain LIKE '%' + filter + '%', which no row with a NULL domain passes
DomainLike(row_domain, domain) ==
    \/ domain = None
    \/ domain = Some(<<>>)
    \/ /\ row_domain # None
       /\ Like(row_domain[1], <<"%">> \o domain[1] \o <<"%">>)

\* the ids of the rows of a table that pass the WHERE clause
Passing(table, domain) == {id \in DOMAIN table : DomainLike(table[id].domain, domain)}

\* ORDER BY created_at DESC: the orders in which the statement may return
\* the rows ids; rows with equal created_at come in any order (the first row
\* is any of the rows with the latest created_at, and so on)
RECURSIVE Orders(_, _)
Orders(table, ids) ==
    IF ids = {} THEN { <<>> }
    ELSE LET latest == {i \in ids : \A j \in ids : table[i].created_at >= table[j].created_at}
         IN  UNION { { <<first>> \o rest : rest \in Orders(table, ids \ {first}) }
                     : first \in latest }

\* LIMIT n: the first n rows, all rows when n is negative
SqlLimit(seq, n) == IF n < 0 THEN seq ELSE TakeFirst(seq, n)

\* url_contains.lower() in s.get("url", "").lower()
StepMatches(step, url_contains) ==
    Contains(LowerStr(UrlText(step.url)), LowerStr(url_contains))

\* the url filter that keeps every request
KeepRequestAlways(steps, url_contains) == TRUE

\* the url filter: a request is skipped when the filter is set and none of
\* its steps matches
KeepRequest(steps, url_contains) ==
    \/ url_contains = None
    \/ \E i \in DOMAIN steps : StepMatches(steps[i], url_contains[1])

\* dict(row) with steps_json replaced by the parsed steps
RowDict(table, id) ==
    [ id |-> id, prompt |-> table[id].prompt, domain |-> table[id].domain,
      steps |-> table[id].steps, final_result |-> table[id].final_result,
      success |-> table[id].success, created_at |-> table[id].created_at,
      updated_at |-> table[id].updated_at ]

\* search_history on a table, order being the order in which the SELECT
\* returns the rows that pass its WHERE clause
SearchHistory(table, domain, url_contains, limit, order) ==
    LET fetched == SqlLimit(order, ClampLimit(limit))
        Kept(id) == KeepRequest(table[id].steps, SearchUrl(url_contains))
        kept == SelectSeq(fetched, Kept)
    IN  [i \in DOMAIN kept |-> RowDict(table, kept[i])]

\* get_advice on a table, order being the order in which the SELECT returns
\* the rows that pass its WHERE clause
GetAdviceRows(table, domain, limit, order) ==
    LET fetched == SqlLimit(order, ClampLimit(limit))
    IN  [i \in DOMAIN fetched |->
            [ id |-> fetched[i], domain |-> table[fetched[i]].domain[1],
              advice |-> table[fetched[i]].advice,
              created_at |-> table[fetched[i]].created_at ]]

\* '; '.join(advice_texts); an advice text is one element of the text
RECURSIVE JoinAdvice(_)
JoinAdvice(advice_list) ==
    IF Len(advice_list) = 1 THEN <<advice_list[1].advice>>
    ELSE <<advice_list[1].advice, "; ">> \o JoinAdvice(Tail(advice_list))

\* "" if not advice_list, else f"[Advice for {domain}: {'; '.join(advice_texts)}]"
AdviceSummary(domain, advice_list) ==
    IF advice_list = <<>> THEN <<>>
    ELSE <<"[Advice for ">> \o domain \o <<": ">> \o JoinAdvice(advice_list) \o <<"]">>

\* the outcome label search_scrape_history renders for a step: "unknown" for
\* None, "helpful" for a true value, "not helpful" for any other
OutcomeLabel(step) ==
    IF step.led_to_data = None THEN "unknown"
    ELSE IF step.led_to_data[1] THEN "helpful"
    ELSE "not helpful"

\* the row that INSERT INTO scraping_advice (domain, advice) creates
NewAdvice(domain, advice, t) == [domain |-> Some(domain), advice |-> advice, created_at |-> t]

\* how a store call ended: the function and "ok" or the error it raised
Returned(fn, outcome) == [fn |-> fn, outcome |-> outcome]

IdleLoc == [request_id |-> 0, step |-> None, steps |-> <<>>, current_domain |-> None]

\* no fetch adapter has been called
IdleTool == [pc |-> "idle", name |-> "", url |-> None, outcome |-> "", result |-> <<>>,
             before |-> 0, returned |-> None]

\* a caller may enter or continue a store function only while no other caller
\* of its thread is inside one
CanRun(c) == \A d \in Callers \ {c} : threadOf[d] = threadOf[c] => pc[d] = "idle"

RowExists(request_id) == request_id \in DOMAIN rows

----------------------------------------------------------------------------
(* The store and its callers *)

InitStore(deployment, clock) ==
    /\ rows = <<>>
    /\ tl = [t \in Threads |-> 0]
    /\ threadOf = deployment
    /\ ctx = [c \in Callers |-> 0]
    /\ pc = [c \in Callers |-> "idle"]
    /\ loc = [c \in Callers |-> IdleLoc]
    /\ ret = Returned("none", "none")
    /\ now = clock
    /\ calls = 0
    /\ log_done = [r \in 1..(MaxRequests + 1) |-> 0]
    /\ tool = IdleTool

\* the variables of the normalisation and summary runs, when they are not run
NoTextRuns ==
    /\ arg = <<>>
    /\ hist = <<>>
    /\ url_domain = None
    /\ sresult = <<>>
    /\ sstep = None

\* the advice table and the query variables, when no advice is stored and no
\* query is run
NoQueries ==
    /\ advice_rows = <<>>
    /\ query = None
    /\ found = <<>>
    /\ summary = None

\* the times the system clock may show when it is read next: it has not
\* advanced since the last reading, or it has
Clock == {t \in {now, now + 1} : t <= MaxNow}

\* get_context(prompt): start_scrape_request(prompt) inserts the row, binds its
\* id to the calling thread and the caller keeps the id in its ScraperContext
GetContext(c, prompt, t) ==
    /\ pc[c] = "idle"
    /\ CanRun(c)
    /\ calls < MaxCalls
    /\ calls' = calls + 1
    /\ Len(rows) < MaxRequests
    /\ rows' = Append(rows, NewRow(prompt, t))
    /\ now' = t
    /\ tl' = [tl EXCEPT ![threadOf[c]] = Len(rows) + 1]
    /\ ctx' = [ctx EXCEPT ![c] = Len(rows) + 1]
    /\ ret' = Returned("start_scrape_request", "ok")
    /\ UNCHANGED <<threadOf, pc, loc, log_done>>
    /\ UNCHANGED <<normVars, summaryVars, toolVars, queryVars>>

\* the SELECT of log_tool_call without the test for a missing row
SelectedIgnoresMissing(c, request_id, step) ==
    /\ loc' = [loc EXCEPT ![c] = [IdleLoc EXCEPT !.request_id = request_id, !.step = step]]
    /\ pc' = [pc EXCEPT ![c] = IF RowExists(request_id) THEN "log_update" ELSE "idle"]
    /\ ret' = IF RowExists(request_id) THEN ret ELSE Returned("log_tool_call", "ok")

\* what log_tool_call does with the row it selected: it keeps steps_json and
\* domain, or raises when there is no row
Selected(c, request_id, step) ==
    IF RowExists(request_id)
      THEN /\ loc' = [loc EXCEPT ![c] = [request_id |-> request_id,
                                          step |-> step,
                                          steps |-> rows[request_id].steps,
                                          current_domain |-> rows[request_id].domain]]
           /\ pc' = [pc EXCEPT ![c] = "log_update"]
           /\ UNCHANGED ret
      ELSE /\ loc' = [loc EXCEPT ![c] = IdleLoc]
           /\ pc' = [pc EXCEPT ![c] = "idle"]
           /\ ret' = Returned("log_tool_call", "NotFound")

\* log_tool_call up to its first database step.  With an explicit request id
\* or a bound one that step is the SELECT.  With neither, it is the INSERT of
\* start_scrape_request, which also binds the new id to the thread; the
\* SELECT is then a later step (LogSelect).
LogCall(c, url, tool_name, arguments, result, request_id, t) ==
    /\ pc[c] = "idle"
    /\ CanRun(c)
    /\ calls < MaxCalls
    /\ calls' = calls + 1
    /\ now' = t
    /\ LET step == Some(MakeStep(url, tool_name, arguments, result, t))
       IN  IF request_id # 0
             THEN /\ Selected(c, request_id, step)
                  /\ UNCHANGED <<rows, tl>>
             ELSE IF tl[threadOf[c]] # 0
             THEN /\ Selected(c, tl[threadOf[c]], step)
                  /\ UNCHANGED <<rows, tl>>
             ELSE /\ Len(rows) < MaxRequests
                  /\ rows' = Append(rows, NewRow(PlaceholderPrompt, t))
                  /\ tl' = [tl EXCEPT ![threadOf[c]] = Len(rows) + 1]
                  /\ loc' = [loc EXCEPT ![c] = [IdleLoc EXCEPT
                                !.request_id = Len(rows) + 1,
                                !.step = step]]
                  /\ pc' = [pc EXCEPT ![c] = "log_select"]
                  /\ UNCHANGED ret
    /\ UNCHANGED <<threadOf, ctx, log_done>>
    /\ UNCHANGED <<normVars, summaryVars, queryVars>>

\* log_tool_call called by a session or a test, outside the fetch adapters
LogBegin(c, url, tool_name, arguments, result, request_id, t) ==
    /\ LogCall(c, url, tool_name, arguments, result, request_id, t)
    /\ UNCHANGED toolVars

\* log_tool_call: SELECT steps_json, domain ... WHERE id = ?, after the
\* request was created by start_scrape_request
LogSelect(c) ==
    /\ pc[c] = "log_select"
    /\ CanRun(c)
    /\ Selected(c, loc[c].request_id, loc[c].step)
    /\ UNCHANGED <<rows, tl, threadOf, ctx, now, calls, log_done>>
    /\ UNCHANGED <<normVars, summaryVars, toolVars, queryVars>>

\* the row written as a whole (REPLACE INTO): the columns that are not
\* given fall back to their defaults
LoggedRowReplaced(row, steps, domain, t) ==
    [row EXCEPT !.steps = steps, !.domain = domain, !.updated_at = t,
                !.final_result = None, !.success = None]

\* the row after UPDATE scrape_requests SET steps_json = ?, domain = ?,
\* updated_at = datetime('now'): the other columns keep their values
LoggedRow(row, steps, domain, t) ==
    [row EXCEPT !.steps = steps, !.domain = domain, !.updated_at = t]

\* log_tool_call: UPDATE scrape_requests SET steps_json, domain, updated_at
LogUpdate(c, t) ==
    /\ pc[c] = "log_update"
    /\ CanRun(c)
    /\ LET request_id == loc[c].request_id
           step == loc[c].step[1]
       IN  /\ rows' = [rows EXCEPT ![request_id] =
                            LoggedRow(@, AppendStep(loc[c].steps, step),
                                      NewDomain(loc[c].current_domain, step.domain), t)]
           /\ log_done' = [log_done EXCEPT ![request_id] = @ + 1]
    /\ now' = t
    /\ pc' = [pc EXCEPT ![c] = "idle"]
    /\ loc' = [loc EXCEPT ![c] = IdleLoc]
    /\ ret' = Returned("log_tool_call", "ok")
    /\ UNCHANGED <<tl, threadOf, ctx, calls>>
    /\ UNCHANGED <<normVars, summaryVars, toolVars, queryVars>>

\* update_request_final_result: one UPDATE of the columns that were given
UpdateRequestFinalResult(c, request_id, final_result, success, t) ==
    /\ pc[c] = "idle"
    /\ CanRun(c)
    /\ calls < MaxCalls
    /\ calls' = calls + 1
    /\ IF final_result = None /\ success = None
         THEN UNCHANGED <<rows, now>>
         ELSE IF RowExists(request_id)
         THEN /\ rows' = [rows EXCEPT ![request_id] = [@ EXCEPT
                          !.final_result = IF final_result # None THEN final_result ELSE @,
                          !.success = IF success # None THEN SuccessColumn(success) ELSE @,
                          !.updated_at = t]]
              /\ now' = t
         ELSE UNCHANGED <<rows, now>>
    /\ ret' = Returned("update_request_final_result", "ok")
    /\ UNCHANGED <<tl, threadOf, ctx, pc, loc, log_done>>
    /\ UNCHANGED <<normVars, summaryVars, toolVars, queryVars>>

\* update_step_outcome up to the UPDATE: early return, SELECT steps_json,
\* the two errors, and the edit of the step in the list that was read
OutcomeSelect(c, request_id, step_id, led_to_data, evaluator_notes) ==
    /\ pc[c] = "idle"
    /\ CanRun(c)
    /\ calls < MaxCalls
    /\ calls' = calls + 1
    /\ IF NothingGiven(led_to_data, evaluator_notes)
         THEN /\ ret' = Returned("update_step_outcome", "ok")
              /\ UNCHANGED <<pc, loc>>
         ELSE IF ~RowExists(request_id)
         THEN /\ ret' = Returned("update_step_outcome", "NotFound")
              /\ UNCHANGED <<pc, loc>>
         ELSE IF StepOutOfRange(step_id, rows[request_id].steps)
         THEN /\ ret' = Returned("update_step_outcome", "OutOfRange")
              /\ UNCHANGED <<pc, loc>>
         ELSE /\ loc' = [loc EXCEPT ![c] = [IdleLoc EXCEPT
                            !.request_id = request_id,
                            !.steps = MarkStep(rows[request_id].steps, step_id,
                                               led_to_data, evaluator_notes)]]
              /\ pc' = [pc EXCEPT ![c] = "outcome_update"]
              /\ UNCHANGED ret
    /\ UNCHANGED <<rows, tl, threadOf, ctx, now, log_done>>
    /\ UNCHANGED <<normVars, summaryVars, toolVars, queryVars>>

\* update_step_outcome: UPDATE scrape_requests SET steps_json, updated_at
OutcomeUpdate(c, t) ==
    /\ pc[c] = "outcome_update"
    /\ CanRun(c)
    /\ rows' = [rows EXCEPT ![loc[c].request_id] = [@ EXCEPT
                    !.steps = loc[c].steps,
                    !.updated_at = t]]
    /\ now' = t
    /\ pc' = [pc EXCEPT ![c] = "idle"]
    /\ loc' = [loc EXCEPT ![c] = IdleLoc]
    /\ ret' = Returned("update_step_outcome", "ok")
    /\ UNCHANGED <<tl, threadOf, ctx, calls, log_done>>
    /\ UNCHANGED <<normVars, summaryVars, toolVars, queryVars>>

RequestIds == 1..(MaxRequests + 1)
StepIds == (0 - 1)..MaxCalls
OptBool == {None, Some(TRUE), Some(FALSE)}
OptFinalResult == {None} \cup {Some(f) : f \in FinalResults}
OptNotes == {None} \cup {Some(n) : n \in Notes}

Next ==
    \/ \E c \in Callers, prompt \in Prompts, t \in Clock : GetContext(c, prompt, t)
    \/ \E c \in Callers, url \in Urls, tool_name \in ToolNames,
          arguments \in ArgumentsSet, result \in Results,
          request_id \in {0} \cup RequestIds, t \in Clock :
            LogBegin(c, url, tool_name, arguments, result, request_id, t)
    \/ \E c \in Callers : LogSelect(c)
    \/ \E c \in Callers, t \in Clock : LogUpdate(c, t)
    \/ \E c \in Callers, request_id \in RequestIds,
          final_result \in OptFinalResult, success \in OptBool, t \in Clock :
            UpdateRequestFinalResult(c, request_id, final_result, success, t)
    \/ \E c \in Callers, request_id \in RequestIds, step_id \in StepIds,
          led_to_data \in OptBool, evaluator_notes \in OptNotes :
            OutcomeSelect(c, request_id, step_id, led_to_data, evaluator_notes)
    \/ \E c \in Callers, t \in Clock : OutcomeUpdate(c, t)

\* Two threads; the clock already shows the last time the model tells apart,
\* so that every timestamp of a run is the same and the runs differ in the
\* interleaving of the database steps only.
Init == InitStore(TwoThreads, MaxNow) /\ NoTextRuns /\ NoQueries

\* Two coroutines of one event loop; the clock starts at 0 and advances.
InitLoop == InitStore(OneLoop, 0) /\ NoTextRuns /\ NoQueries

\* the store used from two threads
Spec == Init /\ [][Next]_vars

\* the store used by two coroutines of one event loop
SpecLoop == InitLoop /\ [][Next]_vars

\* the session of the command line program, which runs alone
Solo == {"s1"}

NextSolo ==
    \/ \E c \in Solo, prompt \in Prompts, t \in Clock : GetContext(c, prompt, t)
    \/ \E c \in Solo, url \in Urls, tool_name \in ToolNames,
          arguments \in ArgumentsSet, result \in Results,
          request_id \in {0} \cup RequestIds, t \in Clock :
            LogBegin(c, url, tool_name, arguments, result, request_id, t)
    \/ \E c \in Solo : LogSelect(c)
    \/ \E c \in Solo, t \in Clock : LogUpdate(c, t)
    \/ \E c \in Solo, request_id \in RequestIds,
          final_result \in OptFinalResult, success \in OptBool, t \in Clock :
            UpdateRequestFinalResult(c, request_id, final_result, success, t)
    \/ \E c \in Solo, request_id \in RequestIds, step_id \in StepIds,
          led_to_data \in OptBool, evaluator_notes \in OptNotes :
            OutcomeSelect(c, request_id, step_id, led_to_data, evaluator_notes)
    \/ \E c \in Solo, t \in Clock : OutcomeUpdate(c, t)

\* the store used by one session alone; the clock starts at 0 and advances
SpecSolo == InitLoop /\ [][NextSolo]_vars

----------------------------------------------------------------------------
(* The queries on their own: the tables are drawn at the start from the     *)
(* tables that sessions leave behind, one query is run on them.             *)

\* search_history(domain, url_contains, limit)
Search(c, domain, url_contains, limit) ==
    /\ pc[c] = "idle"
    /\ CanRun(c)
    /\ query = None
    /\ query' = Some([fn |-> "search_history", domain |-> domain,
                      url_contains |-> url_contains, limit |-> limit])
    /\ \E order \in Orders(rows, Passing(rows, SearchDomain(domain))) :
          found' = SearchHistory(rows, SearchDomain(domain), url_contains, limit, order)
    /\ ret' = Returned("search_history", "ok")
    /\ UNCHANGED <<rows, tl, threadOf, ctx, pc, loc, now, calls, log_done>>
    /\ UNCHANGED <<normVars, summaryVars, toolVars, advice_rows, summary>>

\* get_advice(domain, limit)
GetAdvice(c, domain, limit) ==
    /\ pc[c] = "idle"
    /\ CanRun(c)
    /\ query = None
    /\ query' = Some([fn |-> "get_advice", domain |-> domain,
                      url_contains |-> None, limit |-> limit])
    /\ \E order \in Orders(advice_rows, Passing(advice_rows, SearchDomain(domain))) :
          found' = GetAdviceRows(advice_rows, SearchDomain(domain), limit, order)
    /\ ret' = Returned("get_advice", "ok")
    /\ UNCHANGED <<rows, tl, threadOf, ctx, pc, loc, now, calls, log_done>>
    /\ UNCHANGED <<normVars, summaryVars, toolVars, advice_rows, summary>>

Injective(f) == \A i, j \in DOMAIN f : i # j => f[i] # f[j]

\* the urls a session logs, each at most once
UrlRuns == {run \in UNION {[1..n -> Urls] : n \in 0..Cardinality(Urls)} : Injective(run)}

\* the creation times of n rows inserted one after the other
Times(n) == {time \in [1..n -> 0..MaxNow] : \A i, j \in 1..n : i < j => time[i] <= time[j]}

\* the row after log_tool_call was called for the urls of run, in this order
RECURSIVE Logged(_, _, _)
Logged(row, run, t) ==
    IF run = <<>> THEN row
    ELSE LET step == MakeStep(Head(run), CHOOSE tool_name \in ToolNames : TRUE,
                              CHOOSE arguments \in ArgumentsSet : TRUE,
                              CHOOSE result \in Results : TRUE, t)
         IN  Logged([row EXCEPT !.steps = AppendStep(@, step),
                                !.domain = NewDomain(@, step.domain),
                                !.updated_at = t],
                    Tail(run), t)

\* tables scrape_requests that sessions leave behind
RequestTables ==
    UNION { { [id \in 1..n |->
                 Logged(NewRow(CHOOSE prompt \in Prompts : TRUE, time[id]), run[id], time[id])]
              : run \in [1..n -> UrlRuns], time \in Times(n) }
            : n \in 0..MaxRequests }

\* the domains advice is added for
AdviceDomains == {url.netloc : url \in Urls}

AdviceTexts == {"use browser fetch", "wait for networkidle"}

\* tables scraping_advice that calls of add_advice leave behind
AdviceTables ==
    UNION { { [id \in 1..n |->
                 NewAdvice(NormalizeAdviceDomain(domain[id]),
                           CHOOSE advice \in AdviceTexts : TRUE, time[id])]
              : domain \in [1..n -> AdviceDomains], time \in Times(n) }
            : n \in 0..MaxAdvice }

DomainFilters ==
    { None, Some(<<" ">>), Some(<<" ", "A", ".", "i", "o">>),
      Some(<<"a", "_", "i", "o">>), Some(<<"%">>), Some(<<"b">>) }

UrlFilters == { None, Some(<<" ">>), Some(<<"w", "W">>), Some(<<"/a">>) }

Limits == { 0 - 1, 0, 2, 10000 }

InitSearch ==
    /\ \/ rows \in RequestTables /\ advice_rows = <<>>
       \/ rows = <<>> /\ advice_rows \in AdviceTables
    /\ tl = [t \in Threads |-> 0]
    /\ threadOf = OneLoop
    /\ ctx = [c \in Callers |-> 0]
    /\ pc = [c \in Callers |-> "idle"]
    /\ loc = [c \in Callers |-> IdleLoc]
    /\ ret = Returned("none", "none")
    /\ now = MaxNow
    /\ calls = 0
    /\ log_done = [r \in 1..(MaxRequests + 1) |->
                      IF r \in DOMAIN rows THEN Len(rows[r].steps) ELSE 0]
    /\ tool = IdleTool
    /\ NoTextRuns
    /\ query = None
    /\ found = <<>>
    /\ summary = None

NextSearch ==
    \/ \E c \in Solo, domain \in DomainFilters, url_contains \in UrlFilters,
          limit \in Limits :
            Search(c, domain, url_contains, limit)
    \/ \E c \in Solo, domain \in DomainFilters, limit \in Limits :
            GetAdvice(c, domain, limit)

SpecSearch == InitSearch /\ [][NextSearch]_vars

----------------------------------------------------------------------------
(* Domain normalisation on its own: the input text is drawn at the start,  *)
(* the actions apply the functions of src/storage.py to it.                *)

Alphabet == {"w", "W", ".", "a", " "}

Texts == UNION { [1..n -> Alphabet] : n \in 0..MaxStrLen }

InitNorm ==
    /\ InitStore(TwoThreads, 0)
    /\ arg \in Texts
    /\ hist = <<>>
    /\ url_domain = None
    /\ sresult = <<>>
    /\ sstep = None
    /\ NoQueries

\* _domain_from_url on a URL whose network location is the input text
DomainFromUrl ==
    /\ url_domain = None
    /\ url_domain' = Some(_domain_from_url([netloc |-> arg, path |-> "/"]))
    /\ UNCHANGED <<arg, hist>>
    /\ UNCHANGED <<storeVars, summaryVars, queryVars, toolVars>>

\* add_advice normalises the input text and stores the result
NormalizeOnce ==
    /\ hist = <<>>
    /\ hist' = <<NormalizeAdviceDomain(arg)>>
    /\ UNCHANGED <<arg, url_domain>>
    /\ UNCHANGED <<storeVars, summaryVars, queryVars, toolVars>>

\* get_advice_for_domain normalises the domain that add_advice stored
NormalizeAgain ==
    /\ Len(hist) = 1
    /\ hist' = Append(hist, NormalizeAdviceDomain(hist[1]))
    /\ UNCHANGED <<arg, url_domain>>
    /\ UNCHANGED <<storeVars, summaryVars, queryVars, toolVars>>

NextNorm == DomainFromUrl \/ NormalizeOnce \/ NormalizeAgain

SpecNorm == InitNorm /\ [][NextNorm]_vars

----------------------------------------------------------------------------
(* Log, then search: the host of the urls is drawn at the start, one        *)
(* session starts a request, logs tool calls on urls of that host and       *)
(* searches the history by domain.                                          *)

\* the texts that can be the host of a url: no blank, no dot at either end
Hostnames ==
    {host \in Texts : /\ host # <<>>
                      /\ \A i \in DOMAIN host : host[i] # " "
                      /\ host[1] # "." /\ host[Len(host)] # "."}

\* urls on a host, with the host as given and in lower case
HostUrls(host) == { [netloc |-> host, path |-> "/a"],
                    [netloc |-> LowerStr(host), path |-> "/b"] }

\* the domain filters of the searches: the host in lower case, whole and
\* without its first four characters (the length of "www.")
HostFilters(host) == { Some(LowerStr(host)), Some(DropFirst(LowerStr(host), 4)) }

\* limit=50, the default of search_history
DefaultLimits == { 50 }

InitRound ==
    /\ InitStore(OneLoop, MaxNow)
    /\ arg \in Hostnames
    /\ hist = <<>>
    /\ url_domain = None
    /\ sresult = <<>>
    /\ sstep = None
    /\ NoQueries

NextRound ==
    \/ \E c \in Solo, prompt \in Prompts, t \in Clock : GetContext(c, prompt, t)
    \/ \E c \in Solo, url \in HostUrls(arg), tool_name \in ToolNames,
          arguments \in ArgumentsSet, result \in Results, t \in Clock :
            LogBegin(c, url, tool_name, arguments, result, 0, t)
    \/ \E c \in Solo : LogSelect(c)
    \/ \E c \in Solo, t \in Clock : LogUpdate(c, t)
    \/ \E c \in Solo, domain \in HostFilters(arg), limit \in DefaultLimits :
            Search(c, domain, None, limit)

SpecRound == InitRound /\ [][NextRound]_vars

----------------------------------------------------------------------------
(* Advice, added and read back: the domain text is drawn at the start,      *)
(* advice is added for it and get_advice_for_domain reads it back.          *)

\* add_advice(domain, advice)
AddAdvice(c, domain, advice, t) ==
    /\ pc[c] = "idle"
    /\ CanRun(c)
    /\ summary = None
    /\ Len(advice_rows) < MaxAdvice
    /\ advice_rows' = Append(advice_rows, NewAdvice(NormalizeAdviceDomain(domain), advice, t))
    /\ now' = t
    /\ ret' = Returned("add_advice", "ok")
    /\ UNCHANGED <<rows, tl, threadOf, ctx, pc, loc, calls, log_done>>
    /\ UNCHANGED <<normVars, summaryVars, toolVars, query, found, summary>>

\* get_advice_for_domain(domain)
GetAdviceForDomain(c, domain) ==
    /\ pc[c] = "idle"
    /\ CanRun(c)
    /\ summary = None
    /\ LET normalized == NormalizeAdviceDomain(domain)
           filter == SearchDomain(Some(normalized))
       IN  \E order \in Orders(advice_rows, Passing(advice_rows, filter)) :
              summary' = Some(AdviceSummary(normalized,
                                 GetAdviceRows(advice_rows, filter, AdviceSummaryLimit, order)))
    /\ ret' = Returned("get_advice_for_domain", "ok")
    /\ UNCHANGED <<rows, tl, threadOf, ctx, pc, loc, now, calls, log_done>>
    /\ UNCHANGED <<normVars, summaryVars, toolVars, advice_rows, query, found>>

\* the text in the letter cases it may be given in
CaseVariants(text) == {text, LowerStr(text), UpperStr(text)}

InitAdvice ==
    /\ InitStore(OneLoop, MaxNow)
    /\ arg \in Texts
    /\ hist = <<>>
    /\ url_domain = None
    /\ sresult = <<>>
    /\ sstep = None
    /\ NoQueries

\* the advice texts that are not stored yet
NewAdviceTexts == AdviceTexts \ {advice_rows[id].advice : id \in DOMAIN advice_rows}

NextAdvice ==
    \/ \E c \in Solo, advice \in NewAdviceTexts, t \in Clock : AddAdvice(c, arg, advice, t)
    \/ \E c \in Solo, domain \in CaseVariants(arg) : GetAdviceForDomain(c, domain)

SpecAdvice == InitAdvice /\ [][NextAdvice]_vars

\* advice is added for the domain text and get_advice is called with the
\* same text as its filter and limit=50, the default
NextAdviceQuery ==
    \/ \E c \in Solo, advice \in NewAdviceTexts, t \in Clock : AddAdvice(c, arg, advice, t)
    \/ \E c \in Solo, limit \in DefaultLimits : GetAdvice(c, Some(arg), limit)

SpecAdviceQuery == InitAdvice /\ [][NextAdviceQuery]_vars

----------------------------------------------------------------------------
(* Advice that has accumulated: the advice table is drawn at the start      *)
(* from the tables that calls of add_advice in different seconds leave      *)
(* behind, get_advice_for_domain is run on it.                              *)

\* the advice text of the call of add_advice that made row id
AdviceText(id) == "hint " \o ToString(id)

\* the largest number of rows of the tables
MaxAccumulated == AdviceSummaryLimit + MaxAdvice - 1

\* tables scraping_advice after n calls of add_advice, every call in a later
\* second than the call before and with a text of its own
AccumulatedTables ==
    UNION { { [id \in 1..n |->
                 NewAdvice(NormalizeAdviceDomain(domain[id]), AdviceText(id), id)]
              : domain \in [1..n -> AdviceDomains] }
            : n \in 0..MaxAccumulated }

\* the domain texts get_advice_for_domain is called with
SummaryDomains ==
    { <<" ", "A", ".", "i", "o">>, <<"b">>, <<"w", "w", "w", ".">>, <<"a", "a">> }

InitAccumulated ==
    /\ InitStore(OneLoop, MaxNow)
    /\ arg \in SummaryDomains
    /\ hist = <<>>
    /\ url_domain = None
    /\ sresult = <<>>
    /\ sstep = None
    /\ advice_rows \in AccumulatedTables
    /\ query = None
    /\ found = <<>>
    /\ summary = None

NextAccumulated == \E c \in Solo : GetAdviceForDomain(c, arg)

SpecAccumulated == InitAccumulated /\ [][NextAccumulated]_vars

----------------------------------------------------------------------------
(* The result summary on its own: the result text is drawn at the start,   *)
(* the action builds the step log_tool_call stores for it.                 *)

\* a text of n characters in which the characters "a" and "." alternate
ResultText(n, k) == [i \in 1..n |-> IF i % 2 = k THEN "a" ELSE "."]

ResultTexts == { ResultText(n, k) : n \in 0..(_RESULT_SUMMARY_MAX + MaxExtra), k \in {0, 1} }

InitSummary ==
    /\ InitStore(TwoThreads, 0)
    /\ arg = <<>>
    /\ hist = <<>>
    /\ url_domain = None
    /\ sresult \in ResultTexts
    /\ sstep = None
    /\ NoQueries

\* log_tool_call builds the step for the result text
BuildStep(url, tool_name, arguments) ==
    /\ sstep = None
    /\ sstep' = Some(MakeStep(url, tool_name, arguments, sresult, now))
    /\ UNCHANGED sresult
    /\ UNCHANGED <<storeVars, normVars, queryVars, toolVars>>

NextSummary ==
    \E url \in Urls, tool_name \in ToolNames, arguments \in ArgumentsSet :
        BuildStep(url, tool_name, arguments)

SpecSummary == InitSummary /\ [][NextSummary]_vars

----------------------------------------------------------------------------
(* The fetch adapters (src/tools/http_tools.py, playwright_tools.py): one   *)
(* session calls them one after the other.  What the network, the browser   *)
(* and the database do is chosen by the environment.                        *)

FetchTools ==
    {"http_request", "playwright_navigate", "playwright_scroll", "playwright_get_content"}

BrowserTools == FetchTools \ {"http_request"}

\* how the external action of an adapter ends: the request or navigation
\* succeeds, or raises the exception of one of the except clauses
FetchOutcomes(name) ==
    IF name = "http_request"
      THEN {"ok", "http_error", "request_error", "error"}
      ELSE {"ok", "timeout", "launch_failed", "error"}

\* the result text of the handler "except Exception"
FailureText(name) ==
    IF name = "http_request" THEN <<"Error fetching">> ELSE <<"Playwright failed">>

\* the result text the adapter builds for an outcome of the external action
AdapterResult(name, outcome) ==
    IF outcome = "ok" THEN CHOOSE result \in Results : TRUE
    ELSE IF outcome = "http_error" THEN <<"HTTP error">>
    ELSE IF outcome = "request_error" THEN <<"Request failed">>
    ELSE IF outcome = "timeout" THEN <<"Navigation timed out">>
    ELSE FailureText(name)

\* the outcomes whose log_tool_call stands inside the try block: the success
\* path, and the navigation timeout of the browser adapters
LogsInTry(name, outcome) ==
    outcome = "ok" \/ (name \in BrowserTools /\ outcome = "timeout")

\* the number of steps stored in a table
RECURSIVE CountSteps(_)
CountSteps(table) ==
    IF table = <<>> THEN 0 ELSE Len(Head(table).steps) + CountSteps(Tail(table))

\* the session is not inside an adapter
ToolIdle == tool.pc \in {"idle", "done", "raised"}

\* the adapter is called: it performs the external action and builds the
\* result text, in the try block or in an except clause
ToolFetch(c, name, url, outcome) ==
    /\ ToolIdle
    /\ pc[c] = "idle"
    /\ CanRun(c)
    /\ calls < MaxCalls
    /\ tool' = [ pc |-> IF LogsInTry(name, outcome) THEN "try" ELSE "handler",
                 name |-> name, url |-> Some(url), outcome |-> outcome,
                 result |-> AdapterResult(name, outcome),
                 before |-> CountSteps(rows), returned |-> None ]
    /\ UNCHANGED <<storeVars, normVars, summaryVars, queryVars>>

\* log_tool_call(url=url, tool_name=..., arguments=args, result=result)
ToolLog(c, arguments, t) ==
    /\ tool.pc \in {"try", "handler"}
    /\ LogCall(c, tool.url[1], tool.name, arguments, tool.result, 0, t)
    /\ tool' = [tool EXCEPT !.pc = IF @ = "try" THEN "try_logging" ELSE "handler_logging"]

\* the database refuses a statement of log_tool_call (sqlite3.OperationalError)
LogRefused(c) ==
    /\ pc[c] \in {"log_select", "log_update"}
    /\ CanRun(c)
    /\ pc' = [pc EXCEPT ![c] = "idle"]
    /\ loc' = [loc EXCEPT ![c] = IdleLoc]
    /\ ret' = Returned("log_tool_call", "OperationalError")
    /\ UNCHANGED <<rows, tl, threadOf, ctx, now, calls, log_done>>
    /\ UNCHANGED <<normVars, summaryVars, queryVars, toolVars>>

\* log_tool_call has ended.  When it returned: "return result", which in a
\* browser adapter called from the try block first runs the finally clause.
\* When it raised: from the try block the exception reaches the handler
\* "except Exception", which builds its result text; from an except clause
\* it leaves the adapter.
ToolLogged(c) ==
    /\ tool.pc \in {"try_logging", "handler_logging"}
    /\ pc[c] = "idle"
    /\ tool' =
         IF ret.outcome = "ok"
           THEN IF tool.pc = "try_logging" /\ tool.name \in BrowserTools
                  THEN [tool EXCEPT !.pc = "closing"]
                  ELSE [tool EXCEPT !.pc = "done", !.returned = Some(tool.result)]
         ELSE IF tool.pc = "try_logging"
           THEN [tool EXCEPT !.pc = "handler", !.result = FailureText(tool.name)]
         ELSE [tool EXCEPT !.pc = "raised"]
    /\ UNCHANGED <<storeVars, normVars, summaryVars, queryVars>>

\* finally: await browser.close(), with "return result" pending.  When it
\* raises, the exception takes the place of the return and reaches the
\* handler "except Exception".
ToolClose(c, closed) ==
    /\ tool.pc = "closing"
    /\ tool' =
         IF closed
           THEN [tool EXCEPT !.pc = "done", !.returned = Some(tool.result)]
           ELSE [tool EXCEPT !.pc = "handler", !.result = FailureText(tool.name)]
    /\ UNCHANGED <<storeVars, normVars, summaryVars, queryVars>>

InitTool == InitStore(OneLoop, MaxNow) /\ NoTextRuns /\ NoQueries

NextTool ==
    \/ \E c \in Solo, prompt \in Prompts, t \in Clock :
          ToolIdle /\ GetContext(c, prompt, t)
    \/ \E c \in Solo, name \in FetchTools, url \in Urls :
          \E outcome \in FetchOutcomes(name) : ToolFetch(c, name, url, outcome)
    \/ \E c \in Solo, arguments \in ArgumentsSet, t \in Clock : ToolLog(c, arguments, t)
    \/ \E c \in Solo : LogSelect(c)
    \/ \E c \in Solo, t \in Clock : LogUpdate(c, t)
    \/ \E c \in Solo : LogRefused(c)
    \/ \E c \in Solo : ToolLogged(c)
    \/ \E c \in Solo, closed \in BOOLEAN : ToolClose(c, closed)

\* one session that calls the fetch adapters
SpecTool == InitTool /\ [][NextTool]_vars

----------------------------------------------------------------------------
(* Claims *)

AllIdle == \A c \in Callers : pc[c] = "idle"

\* a step without its outcome marks
Unmarked(step) == [step EXCEPT !.led_to_data = None, !.evaluator_notes = None]

\* old is a prefix of new, outcome marks aside
PrefixUnmarked(old, new) ==
    /\ Len(old) <= Len(new)
    /\ \A i \in 1..Len(old) : Unmarked(old[i]) = Unmarked(new[i])

\* one leading "www." removed, if there is one
WithoutWww(s) ==
    IF Len(s) >= 4 /\ SubSeq(s, 1, 4) = <<"w", "w", "w", ".">>
      THEN SubSeq(s, 5, Len(s))
      ELSE s

\* a non-empty text without whitespace that begins and ends with a letter
IsHostname(s) ==
    /\ s # <<>>
    /\ \A i \in 1..Len(s) : s[i] # " "
    /\ s[1] # "." /\ s[Len(s)] # "."

\* C1: when no log_tool_call is in progress, every request has exactly as
\* many steps as log_tool_call calls have completed against it, whatever the
\* interleaving of their SELECT and UPDATE steps was.
C1_NoLostAppend ==
    AllIdle => \A r \in DOMAIN rows : Len(rows[r].steps) = log_done[r]

\* C2: no step of any operation shrinks or reorders a request's steps: the
\* steps stored before the step are a prefix, outcome marks aside, of the
\* steps stored after it.
C2_StepsOnlyGrow ==
    [][\A r \in DOMAIN rows : PrefixUnmarked(rows[r].steps, rows'[r].steps)]_vars

\* C3: the request id that a session's log_tool_call resolves to (the binding
\* of the session's thread) is the session's own request, whatever other
\* sessions have started.
C3_OwnBinding ==
    \A c \in Callers : ctx[c] # 0 => tl[threadOf[c]] = ctx[c]

\* C4: once a request's domain is set it never changes.
C4_DomainSetOnce ==
    [][\A r \in DOMAIN rows :
          rows[r].domain # None => rows'[r].domain = rows[r].domain]_vars

\* C5: in every request, the step at 0-based position i has step_id i, also
\* after later appends, outcome updates and racing appends.
C5_StepIdIsIndex ==
    \A r \in DOMAIN rows :
        \A i \in 1..Len(rows[r].steps) : rows[r].steps[i].step_id = Some(i - 1)

\* C5 witness: a request with two steps whose first step has an outcome mark
\* (an append followed the first one, and an outcome update followed too).
C5_Witness ==
    \E r \in DOMAIN rows :
        /\ Len(rows[r].steps) >= 2
        /\ rows[r].steps[1].led_to_data # None

\* C6: for every hostname, _domain_from_url yields the lowercase hostname with
\* one leading "www." removed and nothing else removed.
C6_OnlyWwwRemoved ==
    (url_domain # None /\ IsHostname(arg))
        => url_domain[1] = WithoutWww(LowerStr(arg))

\* C7: the advice-domain normalisation (strip, lowercase, strip www.) applied
\* to its own result yields that result again.
C7_Idempotent ==
    Len(hist) = 2 => hist[2] = hist[1]

\* C8: a step's result is the full result text; its result_summary is the
\* result when that has at most 500 characters, else the first 500
\* characters followed by "..."; the summary has at most 503 characters.
C8_Summary ==
    sstep # None =>
        LET step == sstep[1]
        IN  /\ step.result = sresult
            /\ Len(sresult) <= _RESULT_SUMMARY_MAX => step.result_summary = sresult
            /\ Len(sresult) > _RESULT_SUMMARY_MAX =>
                  /\ Len(step.result_summary) = _RESULT_SUMMARY_MAX + 3
                  /\ \A i \in 1.._RESULT_SUMMARY_MAX : step.result_summary[i] = sresult[i]
                  /\ \A i \in 1..3 : step.result_summary[_RESULT_SUMMARY_MAX + i] = "."
            /\ Len(step.result_summary) <= _RESULT_SUMMARY_MAX + 3

\* C8 witness: a step was built for a result of more than 500 characters.
C8_Witness == sstep # None /\ Len(sresult) > _RESULT_SUMMARY_MAX

\* C9: update_step_outcome on an existing request, with led_to_data or
\* evaluator_notes given and a step id below 0 or not below the number of
\* steps, ends with OutOfRange and leaves every row as it was (steps, domain
\* and updated_at included).
C9_OutOfRange ==
    [][\A c \in Callers, request_id \in DOMAIN rows,
          led_to_data \in OptBool, evaluator_notes \in OptNotes :
         \A step_id \in StepIds :
            ( /\ led_to_data # None \/ evaluator_notes # None
              /\ step_id < 0 \/ step_id >= Len(rows[request_id].steps)
              /\ OutcomeSelect(c, request_id, step_id, led_to_data, evaluator_notes) )
            => ( /\ ret' = Returned("update_step_outcome", "OutOfRange")
                 /\ pc'[c] = "idle"
                 /\ rows' = rows )]_vars

\* C9 witness: an update_step_outcome call ended with OutOfRange on a request
\* that has a step and whose updated_at is older than the clock.
C9_Witness ==
    /\ ret = Returned("update_step_outcome", "OutOfRange")
    /\ \E r \in DOMAIN rows : Len(rows[r].steps) >= 1 /\ rows[r].updated_at < now

\* C10 as claimed: update_step_outcome on a request id that does not exist
\* ends with NotFound for every combination of its optional arguments, and
\* creates no row.
C10_NotFoundAlways ==
    [][\A c \in Callers, request_id \in RequestIds \ DOMAIN rows, step_id \in StepIds,
          led_to_data \in OptBool, evaluator_notes \in OptNotes :
            OutcomeSelect(c, request_id, step_id, led_to_data, evaluator_notes)
            => ( /\ ret' = Returned("update_step_outcome", "NotFound")
                 /\ rows' = rows )]_vars

\* C10 amended: update_step_outcome on a request id that does not exist
\* creates no row; it ends with NotFound when led_to_data or evaluator_notes
\* is given, and returns normally when both are omitted.
C10_NotFoundWhenGiven ==
    [][\A c \in Callers, request_id \in RequestIds \ DOMAIN rows, step_id \in StepIds,
          led_to_data \in OptBool, evaluator_notes \in OptNotes :
            OutcomeSelect(c, request_id, step_id, led_to_data, evaluator_notes)
            => ( /\ rows' = rows
                 /\ pc'[c] = "idle"
                 /\ ret' = Returned("update_step_outcome",
                                    IF led_to_data # None \/ evaluator_notes # None
                                      THEN "NotFound" ELSE "ok") )]_vars

\* C10 witness: an update_step_outcome call ended with NotFound.
C10_Witness == ret = Returned("update_step_outcome", "NotFound")

\* C11: log_tool_call with an explicit request id that does not exist ends
\* with NotFound, and its step changes no row (no request is created, no step
\* is appended) and no binding of any thread or session.
C11_ExplicitNotFound ==
    [][\A c \in Callers, url \in Urls, tool_name \in ToolNames,
          arguments \in ArgumentsSet, result \in Results,
          request_id \in RequestIds \ DOMAIN rows, t \in Clock :
            LogBegin(c, url, tool_name, arguments, result, request_id, t)
            => ( /\ ret' = Returned("log_tool_call", "NotFound")
                 /\ pc'[c] = "idle"
                 /\ rows' = rows
                 /\ tl' = tl
                 /\ ctx' = ctx )]_vars

\* C11 witness: a log_tool_call call ended with NotFound while a request with
\* a step exists and the caller's thread has a binding.
C11_Witness ==
    /\ ret = Returned("log_tool_call", "NotFound")
    /\ \E r \in DOMAIN rows : Len(rows[r].steps) >= 1
    /\ \E c \in Callers : tl[threadOf[c]] # 0

\* the rows other than r are what they were
OthersUnchanged(r) == \A q \in DOMAIN rows : q # r => rows'[q] = rows[q]

\* C12: log_tool_call without a request id on a thread without binding does
\* not fail: its INSERT adds exactly one row, with the placeholder prompt and
\* no steps, behind the rows that exist; its SELECT finds that row; and its
\* UPDATE of a placeholder request that is still without steps stores the
\* step as the request's only step, with step_id 0.  None of the three
\* changes another row.
C12_FallbackCreates ==
    [][\A c \in Callers :
        /\ \A url \in Urls, tool_name \in ToolNames, arguments \in ArgumentsSet,
              result \in Results, t \in Clock :
             (tl[threadOf[c]] = 0 /\ LogBegin(c, url, tool_name, arguments, result, 0, t))
             => ( /\ Len(rows') = Len(rows) + 1
                  /\ SubSeq(rows', 1, Len(rows)) = rows
                  /\ rows'[Len(rows')].prompt = PlaceholderPrompt
                  /\ rows'[Len(rows')].steps = <<>>
                  /\ pc'[c] = "log_select"
                  /\ loc'[c].request_id = Len(rows') )
        /\ (pc[c] = "log_select" /\ LogSelect(c))
             => ( /\ pc'[c] = "log_update"
                  /\ loc'[c].request_id = loc[c].request_id
                  /\ rows' = rows )
        /\ \A t \in Clock :
             ( /\ pc[c] = "log_update"
               /\ rows[loc[c].request_id].prompt = PlaceholderPrompt
               /\ rows[loc[c].request_id].steps = <<>>
               /\ LogUpdate(c, t) )
             => ( /\ ret' = Returned("log_tool_call", "ok")
                  /\ Len(rows') = Len(rows)
                  /\ OthersUnchanged(loc[c].request_id)
                  /\ Len(rows'[loc[c].request_id].steps) = 1
                  /\ rows'[loc[c].request_id].steps[1].step_id = Some(0)
                  /\ rows'[loc[c].request_id].steps[1].url = loc[c].step[1].url )]_vars

\* C12 witness: a log_tool_call call has ended normally, and a request with
\* the placeholder prompt that was created behind a session's request holds
\* one step.
C12_Witness ==
    /\ ret = Returned("log_tool_call", "ok")
    /\ \E r \in DOMAIN rows :
          /\ r > 1
          /\ rows[r].prompt = PlaceholderPrompt
          /\ rows[1].prompt # PlaceholderPrompt
          /\ Len(rows[r].steps) = 1

\* C13: update_request_final_result on an existing request leaves prompt,
\* domain, steps and created_at as they were and changes no other row; a
\* field that is not given keeps its value, a given final_result is stored, a
\* given success is stored as 1 or 0; when neither is given the row does not
\* change at all, updated_at included.
C13_PartialUpdate ==
    [][\A c \in Callers, request_id \in DOMAIN rows,
          final_result \in OptFinalResult, success \in OptBool, t \in Clock :
            UpdateRequestFinalResult(c, request_id, final_result, success, t)
            => LET old == rows[request_id]
                   new == rows'[request_id]
               IN  /\ OthersUnchanged(request_id)
                   /\ Len(rows') = Len(rows)
                   /\ new.prompt = old.prompt
                   /\ new.domain = old.domain
                   /\ new.steps = old.steps
                   /\ new.created_at = old.created_at
                   /\ final_result = None => new.final_result = old.final_result
                   /\ final_result # None => new.final_result = final_result
                   /\ success = None => new.success = old.success
                   /\ success = Some(TRUE) => new.success = Some(1)
                   /\ success = Some(FALSE) => new.success = Some(0)
                   /\ (final_result = None /\ success = None) => new = old]_vars

\* C13 witness: update_request_final_result has ended, and a request holds
\* success 0 and no final_result (only success was given, as False), with an
\* updated_at later than its created_at.
C13_Witness ==
    /\ ret = Returned("update_request_final_result", "ok")
    /\ \E r \in DOMAIN rows :
          /\ rows[r].success = Some(0)
          /\ rows[r].final_result = None
          /\ rows[r].updated_at > rows[r].created_at

\* C14: update_request_final_result with final_result or success given and a
\* request id that does not exist ends with NotFound.
C14_MissingIsNotFound ==
    [][\A c \in Callers, request_id \in RequestIds \ DOMAIN rows,
          final_result \in OptFinalResult, success \in OptBool, t \in Clock :
            ( /\ final_result # None \/ success # None
              /\ UpdateRequestFinalResult(c, request_id, final_result, success, t) )
            => ret' = Returned("update_request_final_result", "NotFound")]_vars

\* the query run last is search_history
IsSearch == query # None /\ query[1].fn = "search_history"

\* C15: search_history with a non-blank domain filter d returns only requests
\* whose domain is set and contains lowercase(trim(d)) as a literal substring,
\* letter case aside.
C15_LiteralSubstring ==
    (IsSearch /\ query[1].domain # None /\ Strip(query[1].domain[1]) # <<>>)
        => \A i \in DOMAIN found :
              /\ found[i].domain # None
              /\ Contains(LowerStr(found[i].domain[1]),
                          LowerStr(Strip(query[1].domain[1])))

\* C16: in the list search_history returns, a request created later (larger
\* id) stands before a request created earlier, also when both have the same
\* created_at.
C16_NewestFirst ==
    IsSearch => \A i, j \in DOMAIN found : i < j => found[i].id > found[j].id

C19_LogThenSearch ==
    [][\A c \in Solo, limit \in DefaultLimits :
         LET r == ctx[c]
             d == WithoutWww(LowerStr(arg))
         IN  ( /\ IsHostname(arg)
               /\ r # 0
               /\ rows[r].steps # <<>>
               /\ Search(c, Some(d), None, limit) )
             => \E i \in DOMAIN found' :
                   /\ found'[i].id = r
                   /\ found'[i].steps = rows[r].steps
                   /\ found'[i].domain = Some(d)]_vars

MatchingAdvice(text) ==
    {id \in DOMAIN advice_rows :
        Contains(LowerStr(advice_rows[id].domain[1]), LowerStr(text))}

\* C21: get_advice_for_domain(d) returns the empty text exactly when the
\* domain of no stored advice entry matches the normalised d; otherwise it
\* returns one line that begins with "[Advice for " and the normalised d and
\* contains the advice text of every matching entry, however many there are.
C21_EveryMatchingAdvice ==
    summary # None =>
        LET d == NormalizeAdviceDomain(arg)
            line == summary[1]
        IN  /\ line = <<>> <=> MatchingAdvice(d) = {}
            /\ MatchingAdvice(d) # {} =>
                  /\ SubSeq(line, 1, 1 + Len(d)) = <<"[Advice for ">> \o d
                  /\ \A id \in MatchingAdvice(d) :
                        Contains(line, <<advice_rows[id].advice>>)

\* C22: the binding of a thread is written by the start_scrape_request of a
\* session only (get_context); no step of log_tool_call writes it, also when
\* the call finds no binding.
C22_LogNeverBinds ==
    [][tl' # tl =>
         \E c \in Callers, prompt \in Prompts, t \in Clock : GetContext(c, prompt, t)]_vars

\* C23: update_step_outcome(request, k, led_to_data, notes) that gets past
\* its checks edits one step in place.  In the list it builds, the number of
\* steps is the same, every step other than k is as stored, step k differs
\* from the stored step in led_to_data and evaluator_notes at most, a field
\* that was given holds the given value and a field that was not given keeps
\* its value; step k renders as "helpful" for True, as "not helpful" for
\* False, and as before when led_to_data was not given.  Its UPDATE stores
\* that list: the stored steps change in the marks of one step at most, and
\* no other column except updated_at and no other row changes.
C23_MarksOneStep ==
    [][\A c \in Callers :
        /\ \A request_id \in DOMAIN rows, step_id \in StepIds,
              led_to_data \in OptBool, evaluator_notes \in OptNotes :
             ( /\ pc[c] = "idle" /\ pc'[c] = "outcome_update"
               /\ OutcomeSelect(c, request_id, step_id, led_to_data, evaluator_notes) )
             => LET old == rows[request_id].steps
                    new == loc'[c].steps
                    k == step_id + 1
                IN  /\ rows' = rows
                    /\ Len(new) = Len(old)
                    /\ k \in DOMAIN old
                    /\ \A i \in DOMAIN old : i # k => new[i] = old[i]
                    /\ Unmarked(new[k]) = Unmarked(old[k])
                    /\ new[k].led_to_data =
                          (IF led_to_data # None THEN led_to_data ELSE old[k].led_to_data)
                    /\ new[k].evaluator_notes =
                          (IF evaluator_notes # None THEN evaluator_notes
                                                     ELSE old[k].evaluator_notes)
                    /\ OutcomeLabel(new[k]) =
                          (IF led_to_data = Some(TRUE) THEN "helpful"
                           ELSE IF led_to_data = Some(FALSE) THEN "not helpful"
                           ELSE OutcomeLabel(old[k]))
        /\ \A t \in Clock :
             (pc[c] = "outcome_update" /\ OutcomeUpdate(c, t))
             => LET r == loc[c].request_id
                    old == rows[r].steps
                    new == rows'[r].steps
                IN  /\ ret' = Returned("update_step_outcome", "ok")
                    /\ new = loc[c].steps
                    /\ Len(new) = Len(old)
                    /\ \E k \in DOMAIN old :
                          /\ \A i \in DOMAIN old : i # k => new[i] = old[i]
                          /\ Unmarked(new[k]) = Unmarked(old[k])
                    /\ [rows'[r] EXCEPT !.steps = old, !.updated_at = rows[r].updated_at]
                          = rows[r]
                    /\ Len(rows') = Len(rows)
                    /\ OthersUnchanged(r)]_vars

\* C23 witness: update_step_outcome has returned, and a request holds two
\* steps of which step 0 renders as "helpful" with the notes given and step
\* 1, never marked, renders as "unknown".
C23_Witness ==
    /\ ret = Returned("update_step_outcome", "ok")
    /\ \E r \in DOMAIN rows :
          /\ Len(rows[r].steps) = 2
          /\ OutcomeLabel(rows[r].steps[1]) = "helpful"
          /\ rows[r].steps[1].evaluator_notes = Some("worked")
          /\ OutcomeLabel(rows[r].steps[2]) = "unknown"
          /\ rows[r].steps[2].evaluator_notes = None

\* the step stored last for the request that the session's thread is bound to
LastStep == LET steps == rows[tl[threadOf["s1"]]].steps IN steps[Len(steps)]

\* C24: when a call of a fetch adapter returns, on its success path or on a
\* failure path, the store holds exactly one step more than when the adapter
\* was called, and the result of that step is the text returned.
C24_OneStepPerCall ==
    [][(tool.pc # "done" /\ tool'.pc = "done")
         => /\ CountSteps(rows') = tool'.before + 1
            /\ LastStep'.tool_name = tool'.name
            /\ LastStep'.result = tool'.returned[1]]_vars

\* C25: a call of http_request whose fetch succeeded ends by returning the
\* fetched response text, also when log_tool_call failed: it neither raises
\* nor returns an error text.
C25_LogNeverBlocks ==
    [][( /\ tool.name = "http_request"
         /\ tool.outcome = "ok"
         /\ ~ToolIdle
         /\ ToolIdle' )
         => /\ tool'.pc = "done"
            /\ tool'.returned = Some(AdapterResult("http_request", "ok"))]_vars

\* the requests that have a step whose url contains the text, letter case aside
MatchingRequests(text) ==
    {id \in DOMAIN rows :
        \E k \in DOMAIN rows[id].steps :
            Contains(LowerStr(UrlText(rows[id].steps[k].url)), LowerStr(text))}

\* C26: search_history with a url_contains filter u that is not blank, no
\* domain filter and limit L returns min(L', M) requests, L' being L clamped
\* to 1..500 and M the number of stored requests with a step whose url
\* contains u; they are matching requests, and no matching request that was
\* left out is newer than a returned one, however many newer requests
\* without a matching step there are.  (Stated for requests created in
\* different seconds, whose order does not depend on how ties are broken.)
C26_FilterBeforeLimit ==
    ( /\ IsSearch /\ query[1].domain = None /\ SearchUrl(query[1].url_contains) # None
      /\ \A i, j \in DOMAIN rows : i # j => rows[i].created_at # rows[j].created_at )
        => LET matching == MatchingRequests(Strip(query[1].url_contains[1]))
               returned == {found[i].id : i \in DOMAIN found}
           IN  /\ Len(found) = Min(Min(Max(query[1].limit, 1), LimitMax),
                                    Cardinality(matching))
               /\ returned \subseteq matching
               /\ \A id \in matching \ returned : \A other \in returned :
                     rows[id].created_at <= rows[other].created_at

\* C27: in every reachable state, a request's domain is null exactly when
\* its stored steps are empty, and when it has steps its domain is the
\* domain of its first step, whatever the interleaving of the calls was.
C27_DomainOfFirstStep ==
    \A r \in DOMAIN rows :
        /\ rows[r].domain = None <=> rows[r].steps = <<>>
        /\ rows[r].steps # <<>> => rows[r].domain = Some(rows[r].steps[1].domain)

\* C28: a step whose led_to_data (or evaluator_notes) is stored as non-null
\* is still stored, with that field non-null, after every step of every
\* call, whatever update_step_outcome and log_tool_call calls run
\* concurrently.
C28_MarksNeverLost ==
    [][\A r \in DOMAIN rows : \A i \in DOMAIN rows[r].steps :
          /\ rows[r].steps[i].led_to_data # None
                => ( /\ i \in DOMAIN rows'[r].steps
                     /\ rows'[r].steps[i].led_to_data # None )
          /\ rows[r].steps[i].evaluator_notes # None
                => ( /\ i \in DOMAIN rows'[r].steps
                     /\ rows'[r].steps[i].evaluator_notes # None )]_vars

\* C29: for every domain text d and advice a, get_advice(domain=d) called
\* after add_advice(d, a), with a limit above the number of entries, returns
\* a list that holds the entry added, with the advice a.
C29_AddThenQuery ==
    [][\A c \in Solo, limit \in DefaultLimits :
         (advice_rows # <<>> /\ GetAdvice(c, Some(arg), limit))
         => \A id \in DOMAIN advice_rows :
               \E i \in DOMAIN found' :
                  /\ found'[i].id = id
                  /\ found'[i].advice = advice_rows[id].advice]_vars

\* C30: update_request_final_result and the writes of log_tool_call and
\* update_step_outcome do not undo each other, whatever the interleaving.
\* A step of update_request_final_result stores the values given and leaves
\* the steps and the domain of every request as they are, also while another
\* thread is between the SELECT and the UPDATE of log_tool_call or
\* update_step_outcome; the UPDATE of log_tool_call and the UPDATE of
\* update_step_outcome leave final_result and success of every request as
\* they are.
C30_NeitherWriteLost ==
    [][/\ \A c \in Callers, request_id \in RequestIds,
             final_result \in OptFinalResult, success \in OptBool, t \in Clock :
            ( /\ calls' = calls + 1
              /\ ret' = Returned("update_request_final_result", "ok")
              /\ UpdateRequestFinalResult(c, request_id, final_result, success, t) )
            => /\ Len(rows') = Len(rows)
               /\ \A r \in DOMAIN rows :
                     /\ rows'[r].steps = rows[r].steps
                     /\ rows'[r].domain = rows[r].domain
               /\ (request_id \in DOMAIN rows /\ final_result # None)
                     => rows'[request_id].final_result = final_result
               /\ (request_id \in DOMAIN rows /\ success # None)
                     => rows'[request_id].success = SuccessColumn(success)
               /\ pc' = pc /\ loc' = loc
       /\ \A c \in Callers, t \in Clock :
            (LogUpdate(c, t) \/ OutcomeUpdate(c, t))
            => /\ Len(rows') = Len(rows)
               /\ \A r \in DOMAIN rows :
                     /\ rows'[r].final_result = rows[r].final_result
                     /\ rows'[r].success = rows[r].success]_vars

\* C30 witness: two calls were made, a log_tool_call that created its
\* request and an update_request_final_result on that request; the update
\* returned while the log_tool_call was still running, the log_tool_call has
\* returned last, and the request holds the step, the final result and the
\* success value.
C30_Witness ==
    /\ calls = 2
    /\ ret = Returned("log_tool_call", "ok")
    /\ \E r \in DOMAIN rows :
          /\ rows[r].prompt = PlaceholderPrompt
          /\ Len(rows[r].steps) = 1
          /\ rows[r].final_result # None
          /\ rows[r].success # None

====
